---- MODULE Spec2Model ----
(***************************************************************************)
(* Model of dlt_bonus_calculation.py: the draw-table parser, the report    *)
(* locator, the complex-pool expander, the prize classifier, the rolling   *)
(* report writer (manage_report) and the orchestration (main_process).     *)
(*                                                                         *)
(* Text is modelled as a sequence of lines; a period string as the         *)
(* sequence of its characters (0..9 a digit, NonDigit any other            *)
(* character); a list as a sequence; None as the empty sequence or as a    *)
(* record with ok = FALSE.                                                 *)
(***************************************************************************)
EXTENDS Integers, Sequences, FiniteSets, TLC

VARIABLES
    pc,                 \* position of the function / run under study
    \* calculate_prize
    tickets, prize_front, prize_back, prize_result,
    \* get_period_data_from_csv
    csv_content, csv_result,
    \* generate_complex_tickets
    fronts, backs, complex_result,
    \* find_matching_report
    directory, target_period, find_result,
    \* manage_report / main_process
    report_file, n_entries, last_call,
    run, loaded, eval_period, report_cutoff_period, report_path,
    rec_tickets, complex_tickets, calls, steps, file_at_start

prizeVars   == <<tickets, prize_front, prize_back, prize_result>>
csvVars     == <<csv_content, csv_result>>
complexVars == <<fronts, backs, complex_result>>
findVars    == <<directory, target_period, find_result>>
reportVars  == <<report_file, n_entries, last_call>>
mainVars    == <<run, loaded, eval_period, report_cutoff_period, report_path,
                 rec_tickets, complex_tickets, calls, steps, file_at_start>>
vars == <<pc, prizeVars, csvVars, complexVars, findVars, reportVars, mainVars>>

----------------------------------------------------------------------------
(* Lists *)

Range(s) == { s[i] : i \in DOMAIN s }

Take(s, n) == SubSeq(s, 1, IF n < Len(s) THEN n ELSE Len(s))

RECURSIVE SumSeq(_)
SumSeq(s) == IF s = <<>> THEN 0 ELSE Head(s) + SumSeq(Tail(s))

\* sorted(xs, key=...) on a list of <<key, value>> pairs: Python's sort is
\* stable, so of two elements with equal keys the one that came first stays
\* first (x is inserted after the last element whose key is not greater).
RECURSIVE InsertByKey(_, _)
InsertByKey(x, s) ==
    IF s = <<>> THEN <<x>>
    ELSE IF x[1] < Head(s)[1] THEN <<x>> \o s
    ELSE <<Head(s)>> \o InsertByKey(x, Tail(s))

RECURSIVE SortedByKey(_)
SortedByKey(s) ==
    IF s = <<>> THEN <<>>
    ELSE InsertByKey(s[Len(s)], SortedByKey(SubSeq(s, 1, Len(s) - 1)))

\* sorted(xs) on a list of integers
Sorted(s) ==
    LET keyed == SortedByKey([i \in DOMAIN s |-> <<s[i], s[i]>>])
    IN  [i \in DOMAIN s |-> keyed[i][2]]

IsAscending(s) == \A i \in 1..(Len(s) - 1) : s[i] <= s[i + 1]

IsDistinct(s) == Cardinality(Range(s)) = Len(s)

\* the sorted list of a finite set of integers
RECURSIVE SetToSeq(_)
SetToSeq(S) ==
    IF S = {} THEN <<>>
    ELSE LET m == CHOOSE x \in S : \A y \in S : x <= y
         IN  <<m>> \o SetToSeq(S \ {m})

----------------------------------------------------------------------------
(* calculate_prize *)

PRIZE_TABLE ==
    (1 :> 10000000) @@ (2 :> 300000) @@ (3 :> 10000) @@ (4 :> 3000) @@
    (5 :> 300) @@ (6 :> 200) @@ (7 :> 100) @@ (8 :> 15) @@ (9 :> 5)

NoLevel == 0

\* a slip in the rule chain: the sixth and seventh prize swapped
LevelSwapped(front_hits, back_hits) ==
    IF front_hits = 5 /\ back_hits = 2 THEN 1
    ELSE IF front_hits = 5 /\ back_hits = 1 THEN 2
    ELSE IF front_hits = 5 /\ back_hits = 0 THEN 3
    ELSE IF front_hits = 4 /\ back_hits = 2 THEN 4
    ELSE IF front_hits = 4 /\ back_hits = 1 THEN 5
    ELSE IF front_hits = 3 /\ back_hits = 2 THEN 7
    ELSE IF front_hits = 4 /\ back_hits = 0 THEN 6
    ELSE IF front_hits = 3 /\ back_hits = 1 THEN 8
    ELSE IF \/ (front_hits = 2 /\ back_hits = 2) \/ (front_hits = 3 /\ back_hits = 0)
            \/ (front_hits = 1 /\ back_hits = 2) \/ (front_hits = 2 /\ back_hits = 1)
            \/ (front_hits = 0 /\ back_hits = 2) THEN 9
    ELSE NoLevel

\* the if / elif chain of the loop body; NoLevel is Python's None
Level(front_hits, back_hits) ==
    IF front_hits = 5 /\ back_hits = 2 THEN 1
    ELSE IF front_hits = 5 /\ back_hits = 1 THEN 2
    ELSE IF front_hits = 5 /\ back_hits = 0 THEN 3
    ELSE IF front_hits = 4 /\ back_hits = 2 THEN 4
    ELSE IF front_hits = 4 /\ back_hits = 1 THEN 5
    ELSE IF front_hits = 3 /\ back_hits = 2 THEN 6
    ELSE IF front_hits = 4 /\ back_hits = 0 THEN 7
    ELSE IF front_hits = 3 /\ back_hits = 1 THEN 8
    ELSE IF \/ (front_hits = 2 /\ back_hits = 2) \/ (front_hits = 3 /\ back_hits = 0)
            \/ (front_hits = 1 /\ back_hits = 2) \/ (front_hits = 2 /\ back_hits = 1)
            \/ (front_hits = 0 /\ back_hits = 2) THEN 9
    ELSE NoLevel

FrontHits(ticket, pf) == Cardinality(Range(ticket[1]) \cap Range(pf))
BackHits(ticket, pb)  == Cardinality(Range(ticket[2]) \cap Range(pb))

EmptyPrizeResult ==
    [total_prize |-> 0, breakdown |-> [level \in DOMAIN PRIZE_TABLE |-> 0], winners |-> <<>>]

\* one iteration of the loop over the tickets
PrizeStep(acc, ticket, pf, pb) ==
    LET level == Level(FrontHits(ticket, pf), BackHits(ticket, pb))
    IN  IF level # NoLevel /\ level \in DOMAIN PRIZE_TABLE
        THEN [total_prize |-> acc.total_prize + PRIZE_TABLE[level],
              breakdown   |-> [acc.breakdown EXCEPT ![level] = @ + 1],
              winners     |-> Append(acc.winners,
                                [front |-> ticket[1], back |-> ticket[2], level |-> level])]
        ELSE acc

RECURSIVE PrizeLoop(_, _, _, _)
PrizeLoop(acc, ts, pf, pb) ==
    IF ts = <<>> THEN acc
    ELSE PrizeLoop(PrizeStep(acc, Head(ts), pf, pb), Tail(ts), pf, pb)

calculate_prize(ts, pf, pb) == PrizeLoop(EmptyPrizeResult, ts, pf, pb)

\* inputs: the winning draw and the tickets scored against it
MaxTickets == 2

SeqsUpTo(S, n) == UNION { [1..k -> S] : k \in 0..n }

PrizeDraws ==
    { [front |-> <<1, 2, 3, 4, 5>>, back |-> <<1, 2>>],
      [front |-> <<3, 4, 5, 6, 7>>, back |-> <<2, 3>>] }

\* k numbers of 1..5 and 5 - k of 6..10, for every k; and a ticket line whose
\* five numbers are not distinct (the parser only counts them)
TicketFronts ==
    { SetToSeq((1..k) \cup (6..(10 - k))) : k \in 0..5 } \cup { <<1, 1, 2, 3, 4>> }

TicketBacks == { <<1, 2>>, <<1, 3>>, <<3, 4>>, <<2, 2>> }

TicketChoices == TicketFronts \X TicketBacks

PrizeIdle ==
    /\ tickets = <<>> /\ prize_front = <<>> /\ prize_back = <<>>
    /\ prize_result = EmptyPrizeResult

CalculatePrize ==
    /\ pc = "in"
    /\ prize_result' = calculate_prize(tickets, prize_front, prize_back)
    /\ pc' = "out"
    /\ UNCHANGED <<tickets, prize_front, prize_back>>
    /\ UNCHANGED <<csvVars, complexVars, findVars, reportVars, mainVars>>

----------------------------------------------------------------------------
(* get_period_data_from_csv *)

\* a character of a period string that is no digit
NonDigit == 10

\* re.match(r'^\d{4,7}$', row[0])
IsPeriodString(p) == Len(p) \in 4..7 /\ \A i \in DOMAIN p : p[i] \in 0..9

\* int(period)
RECURSIVE IntOf(_)
IntOf(p) == IF p = <<>> THEN 0 ELSE 10 * IntOf(SubSeq(p, 1, Len(p) - 1)) + p[Len(p)]

\* A number field "a,b,c" is the list of its comma-separated pieces; a piece is
\* <<n>> when it is the decimal text of n, and <<>> when int() rejects it.
IsNumeric(piece) == piece # <<>>

AllNumeric(field) == \A i \in DOMAIN field : IsNumeric(field[i])

\* sorted(map(int, s.split(',')))
SortedInts(field) == Sorted([i \in DOMAIN field |-> field[i][1]])

EmptyLoad == [period_map |-> <<>>, periods_list |-> <<>>]

\* the length and range test of one row
DrawAccepted(front_balls, back_balls) ==
    ~ (\/ Len(front_balls) # 5
       \/ ~ (\A i \in DOMAIN front_balls : 1 <= front_balls[i] /\ front_balls[i] <= 35)
       \/ Len(back_balls) # 2
       \/ ~ (\A i \in DOMAIN back_balls : 1 <= back_balls[i] /\ back_balls[i] <= 12))

\* one iteration of the loop over the rows; period_map is a function from
\* period strings to draws, so a second row of a period replaces the first
\* draw, while periods_list gets the period once more
ParseRow(acc, row) ==
    IF row.ncols >= 4 /\ IsPeriodString(row.period)
    THEN IF ~ (AllNumeric(row.red) /\ AllNumeric(row.blue))
         THEN acc       \* ValueError: the row is skipped with a warning
         ELSE LET front_balls == SortedInts(row.red)
                  back_balls  == SortedInts(row.blue)
              IN  IF ~ DrawAccepted(front_balls, back_balls)
                  THEN acc
                  ELSE [period_map |->
                            [q \in (DOMAIN acc.period_map) \cup {row.period} |->
                                IF q = row.period
                                THEN [date |-> row.date, front |-> front_balls,
                                      back |-> back_balls]
                                ELSE acc.period_map[q]],
                        periods_list |-> Append(acc.periods_list, row.period)]
    ELSE acc

RECURSIVE ParseRows(_, _)
ParseRows(acc, rows) ==
    IF rows = <<>> THEN acc ELSE ParseRows(ParseRow(acc, Head(rows)), Tail(rows))

\* sorted(periods_list, key=int)
SortedPeriods(periods_list) ==
    LET keyed == SortedByKey([i \in DOMAIN periods_list |->
                                <<IntOf(periods_list[i]), periods_list[i]>>])
    IN  [i \in DOMAIN periods_list |-> keyed[i][2]]

NoLoad == [ok |-> FALSE, period_map |-> <<>>, sorted_periods |-> <<>>]

\* csv_content: [empty, rows], the rows being those after the header line
get_period_data_from_csv(content) ==
    IF content.empty THEN NoLoad
    ELSE LET acc == ParseRows(EmptyLoad, content.rows)
         IN  IF DOMAIN acc.period_map = {} THEN NoLoad
             ELSE [ok |-> TRUE, period_map |-> acc.period_map,
                   sorted_periods |-> SortedPeriods(acc.periods_list)]

\* inputs
MaxRows == 2

PeriodStrings ==
    { <<2, 3, 0, 0, 1>>, <<2, 3, 0, 0, 2>>, <<0, 2, 3, 0, 0, 2>>, <<9, 9, 9>>,
      <<2, 3, 0, NonDigit>> }

RedFields ==
    { <<<<5>>, <<4>>, <<3>>, <<2>>, <<1>>>>,          \* valid, unsorted
      <<<<1>>, <<1>>, <<2>>, <<3>>, <<4>>>>,          \* a number twice
      <<<<1>>, <<2>>, <<3>>, <<4>>, <<36>>>>,         \* out of range
      <<<<0>>, <<2>>, <<3>>, <<4>>, <<35>>>>,         \* out of range
      <<<<1>>, <<2>>, <<3>>, <<4>>>>,                 \* four numbers
      <<<<1>>, <<2>>, <<>>, <<4>>, <<5>>>> }          \* a piece that is no number

BlueFields == { <<<<12>>, <<1>>>>, <<<<1>>, <<13>>>> }

CsvRows ==
    [ncols : {4}, period : PeriodStrings, date : {"d"}, red : RedFields, blue : BlueFields]
    \cup { [ncols |-> 3, period |-> <<2, 3, 0, 0, 1>>, date |-> "d", red |-> <<>>,
            blue |-> <<>>] }

CsvInputs ==
    { [empty |-> TRUE, rows |-> <<>>] } \cup [empty : {FALSE}, rows : SeqsUpTo(CsvRows, MaxRows)]

CsvIdle == csv_content = [empty |-> TRUE, rows |-> <<>>] /\ csv_result = NoLoad

ParseCsv ==
    /\ pc = "in"
    /\ csv_result' = get_period_data_from_csv(csv_content)
    /\ pc' = "out"
    /\ UNCHANGED csv_content
    /\ UNCHANGED <<prizeVars, complexVars, findVars, reportVars, mainVars>>

----------------------------------------------------------------------------
(* generate_complex_tickets *)

max_tickets_limit == 20000

\* math.comb(n, k)
RECURSIVE comb(_, _)
comb(n, k) ==
    IF k > n THEN 0
    ELSE IF k = 0 THEN 1
    ELSE (comb(n - 1, k - 1) * n) \div k

\* itertools.combinations(s, k): the k-element subsequences of s by position,
\* in lexicographic order of the positions
RECURSIVE combinations(_, _)
combinations(s, k) ==
    IF k = 0 THEN << <<>> >>
    ELSE IF Len(s) < k THEN <<>>
    ELSE LET with_head == combinations(Tail(s), k - 1)
         IN  [i \in DOMAIN with_head |-> <<Head(s)>> \o with_head[i]]
             \o combinations(Tail(s), k)

\* the list comprehension: for f_combo ... for b_combo ...
ExpandedTickets(fs, bs) ==
    LET f_combos == combinations(fs, 5)
        b_combos == combinations(bs, 2)
        nb       == Len(b_combos)
    IN  [i \in 1..(Len(f_combos) * nb) |->
            <<Sorted(f_combos[((i - 1) \div nb) + 1]), Sorted(b_combos[((i - 1) % nb) + 1])>>]

\* the expansion cut at the limit instead of dropped
generate_complex_tickets_truncating(fs, bs) ==
    IF Len(fs) < 5 \/ Len(bs) < 2 THEN <<>>
    ELSE Take(ExpandedTickets(fs, bs), max_tickets_limit)

generate_complex_tickets(fs, bs) ==
    IF Len(fs) < 5 \/ Len(bs) < 2 THEN <<>>
    ELSE LET num_combs == comb(Len(fs), 5) * comb(Len(bs), 2)
         IN  IF num_combs > max_tickets_limit THEN <<>>
             ELSE ExpandedTickets(fs, bs)

\* inputs: every pool within 1..6 x 1..3, the pools 1..n x 1..m up to the
\* sizes that pass the limit, pools that name a number twice and pools that
\* are not in ascending order
MaxFrontPool == 11
MaxBackPool == 12

FrontPools ==
    { SetToSeq(S) : S \in SUBSET (1..6) }
    \cup { SetToSeq(1..n) : n \in 0..MaxFrontPool }
    \cup { <<1, 1, 2, 3, 4, 5>>, <<6, 5, 4, 3, 2, 1>> }

BackPools ==
    { SetToSeq(S) : S \in SUBSET (1..3) }
    \cup { SetToSeq(1..m) : m \in 0..MaxBackPool }
    \cup { <<1, 1>>, <<3, 1, 2>> }

ComplexIdle == fronts = <<>> /\ backs = <<>> /\ complex_result = <<>>

GenerateComplexTickets ==
    /\ pc = "in"
    /\ complex_result' = generate_complex_tickets(fronts, backs)
    /\ pc' = "out"
    /\ UNCHANGED <<fronts, backs>>
    /\ UNCHANGED <<prizeVars, csvVars, findVars, reportVars, mainVars>>

----------------------------------------------------------------------------
(* find_matching_report *)

\* A report file's name is [tag, stamp]: dlt_analysis_output_<tag>_<stamp>.txt.
\* stamp.form is "none" when the name does not end in _<8 digits>_<6 digits>.txt,
\* "invalid" when it does and the digits are no date and time (strptime raises
\* ValueError), "valid" when they are; stamp.t orders the valid ones in time.
\* A file's content is [readable, decls]: decls lists the periods of its lines
\* that declare a data cutoff, in the order of the text.
NoStamp      == [form |-> "none", t |-> 0]
InvalidStamp == [form |-> "invalid", t |-> 0]
ValidStamp(n) == [form |-> "valid", t |-> n]

\* robust_file_read(file_path) or None; an empty text is falsy as well
HasContent(content) == content.readable /\ content.decls # <<>>

\* re.search(...): the first declaration of the text
DeclaredPeriod(content) == content.decls[1]

\* the order of candidates.sort(): by timestamp, then by path; two candidates
\* with one timestamp have the same stamp text, so their tags decide
CandidateBefore(a, b) ==
    \/ a.stamp.t < b.stamp.t
    \/ (a.stamp.t = b.stamp.t /\ a.tag <= b.tag)

\* the first candidate in ascending instead of descending order
LatestOfAscending(candidates) ==
    CHOOSE c \in candidates : \A d \in candidates : CandidateBefore(c, d)

\* candidates.sort(reverse=True); candidates[0]
LatestOf(candidates) ==
    CHOOSE c \in candidates : \A d \in candidates : CandidateBefore(d, c)

\* dir: a function from file names to contents
find_matching_report(dir, target) ==
    LET candidates ==
            { name \in DOMAIN dir :
                /\ HasContent(dir[name])
                /\ DeclaredPeriod(dir[name]) = target
                /\ name.stamp.form = "valid" }
    IN  IF candidates = {} THEN <<>> ELSE <<LatestOf(candidates)>>

\* inputs
MaxFiles == 3

FindPeriods == { <<2, 3, 0, 0, 1>>, <<0, 2, 3, 0, 0, 1>> }

Stamps == { NoStamp, InvalidStamp, ValidStamp(1), ValidStamp(2) }

ContentsOver(periods) ==
    { [readable |-> FALSE, decls |-> <<>>], [readable |-> TRUE, decls |-> <<>>] }
    \cup { [readable |-> TRUE, decls |-> <<p>>] : p \in periods }
    \cup { [readable |-> TRUE, decls |-> pq] : pq \in { x \in periods \X periods : x[1] # x[2] } }

\* the directories of at most MaxFiles files with these names and contents
DirectoriesWith(file_names, contents) ==
    UNION { [names -> contents] :
            names \in { N \in SUBSET file_names : Cardinality(N) <= MaxFiles } }

DirectoriesOver(tags, periods) ==
    DirectoriesWith([tag : tags, stamp : Stamps], ContentsOver(periods))

FindIdle == directory = <<>> /\ target_period = <<>> /\ find_result = <<>>

FindMatchingReport ==
    /\ pc = "in"
    /\ find_result' = find_matching_report(directory, target_period)
    /\ pc' = "out"
    /\ UNCHANGED <<directory, target_period>>
    /\ UNCHANGED <<prizeVars, csvVars, complexVars, reportVars, mainVars>>

----------------------------------------------------------------------------
(* manage_report *)

\* A text is the sequence of its lines (the empty string is one blank line), so
\* joining texts with "\n" is concatenation. A line is [k, text, n, ind]: its
\* kind, what it says, a number (the entry it belongs to, or its place in a
\* message) and whether it starts with white space.
MAX_NORMAL_RECORDS == 10
MAX_ERROR_LOGS == 20

Line(k, text, n, ind) == [k |-> k, text |-> text, n |-> n, ind |-> ind]

normal_marker == Line("marker", "normal", 0, 0)     \* ==== evaluation records ====
error_marker  == Line("marker", "error", 0, 0)      \* ==== error log ====
Separator     == Line("separator", "", 0, 0)        \* '=' * 20
Blank         == Line("blank", "", 0, 0)

IsBlank(l) == l.k = "blank"

\* entry_lines joined: the summary lines, a blank line, the discrete
\* recommendation's details, a blank line, the complex recommendation's
\* details (each run of non-blank lines is one line here)
EntryText(id) ==
    << Line("entry", "summary", id, 0), Blank, Line("entry", "recommended", id, 0),
       Blank, Line("entry", "complex", id, 0) >>

\* the one-line messages of main_process
ExpectedError(what) == << Line("message", what, 1, 0) >>

\* the message of the top-level handler: a first line, then the traceback text,
\* whose File and source lines are indented and which ends with a line break
CriticalError ==
    << Line("message", "critical", 1, 0), Line("message", "traceback", 1, 0),
       Line("message", "traceback", 2, 1), Line("message", "traceback", 3, 1),
       Line("message", "traceback", 4, 0), Blank >>

\* robust_file_read(MAIN_REPORT_FILE) or "": <<>> is the file that does not exist
ReadReportFile(file) == IF file = <<>> THEN <<Blank>> ELSE file

\* text.split(sep) for a separator that stands on a line of its own. The pieces
\* of the string keep the line breaks around the separator; every piece is
\* stripped, or has its blank lines dropped, before it is used.
RECURSIVE SplitOn(_, _)
SplitOn(text, sep) ==
    IF sep \notin Range(text) THEN <<text>>
    ELSE LET i == CHOOSE j \in DOMAIN text :
                    text[j] = sep /\ \A h \in 1..(j - 1) : text[h] # sep
         IN  <<SubSeq(text, 1, i - 1)>> \o SplitOn(SubSeq(text, i + 1, Len(text)), sep)

\* line.strip()
StripLine(l) == [l EXCEPT !.ind = 0]

\* entry.strip(): the white space at both ends of a text of several lines
RECURSIVE StripText(_)
StripText(text) ==
    IF text = <<>> THEN <<>>
    ELSE IF IsBlank(Head(text)) THEN StripText(Tail(text))
    ELSE IF IsBlank(text[Len(text)]) THEN StripText(SubSeq(text, 1, Len(text) - 1))
    ELSE <<StripLine(Head(text))>> \o Tail(text)

\* sep.join(texts)
RECURSIVE Join(_, _)
Join(texts, sep) ==
    IF texts = <<>> THEN <<Blank>>
    ELSE IF Len(texts) = 1 THEN texts[1]
    ELSE texts[1] \o sep \o Join(Tail(texts), sep)

\* the entries parsed from the part before the error marker
ParsedNormalEntries(normal_part) ==
    LET pieces == SplitOn(normal_part, Separator)
        Kept(entry) == StripText(entry) # <<>> /\ normal_marker \notin Range(entry)
        kept == SelectSeq(pieces, Kept)
    IN  [i \in DOMAIN kept |-> StripText(kept[i])]

\* the error lines parsed from the part after the error marker
ParsedErrorEntries(error_part) ==
    LET NonBlank(l) == ~ IsBlank(l)
        kept == SelectSeq(error_part, NonBlank)
    IN  [i \in DOMAIN kept |-> <<StripLine(kept[i])>>]

\* f"[{timestamp}] {new_error}"
Stamped(new_error) == <<[new_error[1] EXCEPT !.k = "stamped"]>> \o Tail(new_error)

\* the text written back
WrittenReport(final_normal_entries, final_error_entries) ==
    <<normal_marker>> \o Join(final_normal_entries, <<Separator>>)
        \o <<Blank, error_marker>> \o Join(final_error_entries, <<>>)

\* new_entry: <<>> (None) or <<id>>; new_error: <<>> (None) or the message's text
manage_report(file, new_entry, new_error) ==
    LET content_str    == ReadReportFile(file)
        parts          == SplitOn(content_str, error_marker)
        normal_part    == parts[1]
        error_part     == IF Len(parts) > 1 THEN parts[2] ELSE <<>>
        normal_entries == ParsedNormalEntries(normal_part)
        error_entries  == ParsedErrorEntries(error_part)
        normal_after   == IF new_entry # <<>>
                          THEN <<EntryText(new_entry[1])>> \o normal_entries
                          ELSE normal_entries
        error_after    == IF new_error # <<>>
                          THEN <<Stamped(new_error)>> \o error_entries
                          ELSE error_entries
    IN  WrittenReport(Take(normal_after, MAX_NORMAL_RECORDS),
                      Take(error_after, MAX_ERROR_LOGS))

\* The calls of manage_report, one after another
MaxRecorded == 11

ReportIdle == report_file = <<>> /\ n_entries = 0 /\ last_call = "none"

\* main_process records its evaluation entry
RecordEntry ==
    /\ pc = "calls"
    /\ n_entries < MaxRecorded
    /\ report_file' = manage_report(report_file, <<n_entries + 1>>, <<>>)
    /\ n_entries' = n_entries + 1
    /\ last_call' = "entry"
    /\ UNCHANGED <<pc, prizeVars, csvVars, complexVars, findVars, mainVars>>

\* main_process records one of its one-line errors
RecordError ==
    /\ pc = "calls"
    /\ report_file' = manage_report(report_file, <<>>, ExpectedError("no_report"))
    /\ last_call' = "error"
    /\ UNCHANGED <<n_entries, pc, prizeVars, csvVars, complexVars, findVars, mainVars>>

\* the top-level handler records the exception with its traceback
RecordCritical ==
    /\ pc = "calls"
    /\ report_file' = manage_report(report_file, <<>>, CriticalError)
    /\ last_call' = "critical"
    /\ UNCHANGED <<n_entries, pc, prizeVars, csvVars, complexVars, findVars, mainVars>>

----------------------------------------------------------------------------
(* main_process *)

\* pc follows the run: "start", "csv_read", "loaded", "designated", "found",
\* "read", "expanded", "checked", "done". calls lists the manage_report calls of
\* the run; steps is the set of the steps it has executed and of the failure
\* points it has hit; file_at_start is the rolling report as the run found it.
MaxRuns == 2

FailurePoints == { "csv_unreadable", "insufficient_data", "no_report", "report_unreadable" }

LaterSteps == { "parse", "expand", "score" }

MainIdle ==
    /\ run = 1 /\ loaded = NoLoad /\ eval_period = <<>> /\ report_cutoff_period = <<>>
    /\ report_path = <<>> /\ rec_tickets = <<>> /\ complex_tickets = <<>>
    /\ calls = <<>> /\ steps = {} /\ file_at_start = <<>>

\* what the draw source, the report directory and the report's text may be
MainCsvRows ==
    [ncols : {4}, period : PeriodStrings, date : {"d"},
     red : { <<<<5>>, <<4>>, <<3>>, <<2>>, <<1>>>> }, blue : { <<<<12>>, <<1>>>> }]

MainCsvInputs ==
    { [empty |-> TRUE, rows |-> <<>>] }
    \cup [empty : {FALSE}, rows : SeqsUpTo(MainCsvRows, MaxRows)]

MainDirectories ==
    DirectoriesWith([tag : {1}, stamp : { NoStamp, ValidStamp(1), ValidStamp(2) }],
                    { [readable |-> TRUE, decls |-> <<p>>] :
                        p \in { <<2, 3, 0, 0, 1>>, <<2, 3, 0, 0, 2>> } })

\* what parse_recommendations_from_report may return
MainRecommendations ==
    [rec_tickets : { <<>>, << <<<<1, 2, 3, 4, 5>>, <<1, 12>>>> >> },
     complex_fronts : { <<>>, <<1, 2, 3, 4, 5, 6>> },
     complex_backs : { <<>>, <<1, 2>> }]

\* manage_report(new_error=...)
RecordsError(what) ==
    /\ report_file' = manage_report(report_file, <<>>, ExpectedError(what))
    /\ calls' = Append(calls, [kind |-> "error", what |-> what])
    /\ UNCHANGED n_entries

\* a failure point: the error is recorded and main_process returns
FailsWith(what) ==
    /\ RecordsError(what)
    /\ steps' = steps \cup {what}
    /\ pc' = "done"

\* csv_content = robust_file_read(CSV_FILE); None and "" are both falsy
ReadDrawSource ==
    /\ pc = "start"
    /\ \E content \in MainCsvInputs :
        /\ csv_content' = content
        /\ IF content.empty
           THEN FailsWith("csv_unreadable")
           ELSE /\ pc' = "csv_read"
                /\ UNCHANGED <<report_file, n_entries, calls, steps>>
    /\ UNCHANGED <<loaded, eval_period, report_cutoff_period, report_path, rec_tickets,
                   complex_tickets, run, file_at_start, last_call, csv_result>>
    /\ UNCHANGED <<prizeVars, complexVars, findVars>>

LoadDraws ==
    /\ pc = "csv_read"
    /\ loaded' = get_period_data_from_csv(csv_content)
    /\ IF ~ loaded'.ok \/ Len(loaded'.sorted_periods) < 2
       THEN FailsWith("insufficient_data")
       ELSE /\ pc' = "loaded"
            /\ UNCHANGED <<report_file, n_entries, calls, steps>>
    /\ UNCHANGED <<eval_period, report_cutoff_period, report_path, rec_tickets,
                   complex_tickets, run, file_at_start, last_call>>
    /\ UNCHANGED <<prizeVars, csvVars, complexVars, findVars>>

\* sorted_periods[-1] and sorted_periods[-2]
Designate ==
    /\ pc = "loaded"
    /\ eval_period' = loaded.sorted_periods[Len(loaded.sorted_periods)]
    /\ report_cutoff_period' = loaded.sorted_periods[Len(loaded.sorted_periods) - 1]
    /\ pc' = "designated"
    /\ UNCHANGED <<loaded, report_path, rec_tickets, complex_tickets, run, file_at_start,
                   calls, steps, reportVars>>
    /\ UNCHANGED <<prizeVars, csvVars, complexVars, findVars>>

\* the report is not found, the error is recorded, and the run goes on
FindReportNoReturn ==
    /\ pc = "designated"
    /\ \E dir \in MainDirectories :
        /\ report_path' = find_matching_report(dir, report_cutoff_period)
        /\ pc' = "found"
        /\ IF report_path' = <<>>
           THEN RecordsError("no_report") /\ steps' = steps \cup {"no_report"}
           ELSE UNCHANGED <<report_file, n_entries, calls, steps>>
    /\ UNCHANGED <<loaded, eval_period, report_cutoff_period, rec_tickets,
                   complex_tickets, run, file_at_start, last_call>>
    /\ UNCHANGED <<prizeVars, csvVars, complexVars, findVars>>

FindReport ==
    /\ pc = "designated"
    /\ \E dir \in MainDirectories :
        /\ report_path' = find_matching_report(dir, report_cutoff_period)
        /\ IF report_path' = <<>>
           THEN FailsWith("no_report")
           ELSE /\ pc' = "found"
                /\ UNCHANGED <<report_file, n_entries, calls, steps>>
    /\ UNCHANGED <<loaded, eval_period, report_cutoff_period, rec_tickets,
                   complex_tickets, run, file_at_start, last_call>>
    /\ UNCHANGED <<prizeVars, csvVars, complexVars, findVars>>

\* report_content = robust_file_read(report_path): the file may no longer be
\* readable, or be empty
ReadReport ==
    /\ pc = "found"
    /\ \E has_content \in BOOLEAN :
        IF ~ has_content
        THEN FailsWith("report_unreadable")
        ELSE /\ pc' = "read"
             /\ UNCHANGED <<report_file, n_entries, calls, steps>>
    /\ UNCHANGED <<loaded, eval_period, report_cutoff_period, report_path, rec_tickets,
                   complex_tickets, run, file_at_start, last_call>>
    /\ UNCHANGED <<prizeVars, csvVars, complexVars, findVars>>

ParseAndExpand ==
    /\ pc = "read"
    /\ \E parsed \in MainRecommendations :
        /\ rec_tickets' = parsed.rec_tickets
        /\ complex_tickets' =
                generate_complex_tickets(parsed.complex_fronts, parsed.complex_backs)
    /\ steps' = steps \cup {"parse", "expand"}
    /\ pc' = "expanded"
    /\ UNCHANGED <<loaded, eval_period, report_cutoff_period, report_path, run,
                   file_at_start, calls, reportVars>>
    /\ UNCHANGED <<prizeVars, csvVars, complexVars, findVars>>

\* the error is recorded whatever the ticket lists hold
WarnAlways ==
    /\ pc = "expanded"
    /\ RecordsError("no_tickets")
    /\ pc' = "checked"
    /\ UNCHANGED <<loaded, eval_period, report_cutoff_period, report_path, rec_tickets,
                   complex_tickets, run, file_at_start, steps, last_call>>
    /\ UNCHANGED <<prizeVars, csvVars, complexVars, findVars>>

\* if not rec_tickets and not complex_tickets: the error is recorded, and the
\* run goes on (there is no return)
WarnIfNoTickets ==
    /\ pc = "expanded"
    /\ IF rec_tickets = <<>> /\ complex_tickets = <<>>
       THEN RecordsError("no_tickets")
       ELSE UNCHANGED <<report_file, n_entries, calls>>
    /\ pc' = "checked"
    /\ UNCHANGED <<loaded, eval_period, report_cutoff_period, report_path, rec_tickets,
                   complex_tickets, run, file_at_start, steps, last_call>>
    /\ UNCHANGED <<prizeVars, csvVars, complexVars, findVars>>

\* both ticket lists are scored and the evaluation entry is recorded
ScoreAndRecord ==
    /\ pc = "checked"
    /\ LET prize_data == loaded.period_map[eval_period]
       IN  prize_result' =
             [rec |-> calculate_prize(rec_tickets, prize_data.front, prize_data.back),
              com |-> calculate_prize(complex_tickets, prize_data.front, prize_data.back)]
    /\ report_file' = manage_report(report_file, <<n_entries + 1>>, <<>>)
    /\ n_entries' = n_entries + 1
    /\ calls' = Append(calls, [kind |-> "entry", what |-> "entry"])
    /\ steps' = steps \cup {"score"}
    /\ pc' = "done"
    /\ UNCHANGED <<loaded, eval_period, report_cutoff_period, report_path, rec_tickets,
                   complex_tickets, run, file_at_start, last_call>>
    /\ UNCHANGED <<tickets, prize_front, prize_back, csvVars, complexVars, findVars>>

\* the script is run again; the rolling report is what the last run left
NextRun ==
    /\ pc = "done"
    /\ run < MaxRuns
    /\ run' = run + 1
    /\ file_at_start' = report_file
    /\ loaded' = NoLoad /\ eval_period' = <<>> /\ report_cutoff_period' = <<>>
    /\ report_path' = <<>> /\ rec_tickets' = <<>> /\ complex_tickets' = <<>>
    /\ calls' = <<>> /\ steps' = {}
    /\ pc' = "start"
    /\ UNCHANGED <<reportVars, prizeVars, csvVars, complexVars, findVars>>

----------------------------------------------------------------------------
(* Specifications *)

\* calculate_prize on every ticket list and draw of the inputs
InitPrize ==
    /\ pc = "in"
    /\ \E draw \in PrizeDraws : prize_front = draw.front /\ prize_back = draw.back
    /\ tickets \in SeqsUpTo(TicketChoices, MaxTickets)
    /\ prize_result = EmptyPrizeResult
    /\ CsvIdle /\ ComplexIdle /\ FindIdle /\ ReportIdle /\ MainIdle

SpecPrize == InitPrize /\ [][CalculatePrize]_vars

\* get_period_data_from_csv on every draw table of the inputs
InitCsv ==
    /\ pc = "in"
    /\ csv_content \in CsvInputs
    /\ csv_result = NoLoad
    /\ PrizeIdle /\ ComplexIdle /\ FindIdle /\ ReportIdle /\ MainIdle

SpecCsv == InitCsv /\ [][ParseCsv]_vars

\* generate_complex_tickets on every pool of the inputs
InitComplex ==
    /\ pc = "in"
    /\ fronts \in FrontPools
    /\ backs \in BackPools
    /\ complex_result = <<>>
    /\ PrizeIdle /\ CsvIdle /\ FindIdle /\ ReportIdle /\ MainIdle

SpecComplex == InitComplex /\ [][GenerateComplexTickets]_vars

\* find_matching_report on every directory and target of the inputs
InitFind ==
    /\ pc = "in"
    /\ directory \in DirectoriesOver({1, 2}, FindPeriods)
    /\ target_period \in FindPeriods
    /\ find_result = <<>>
    /\ PrizeIdle /\ CsvIdle /\ ComplexIdle /\ ReportIdle /\ MainIdle

SpecFind == InitFind /\ [][FindMatchingReport]_vars

\* any sequence of manage_report calls on a rolling report that starts absent
InitReport ==
    /\ pc = "calls"
    /\ PrizeIdle /\ CsvIdle /\ ComplexIdle /\ FindIdle /\ ReportIdle /\ MainIdle

NextReport == RecordEntry \/ RecordError \/ RecordCritical

SpecReport == InitReport /\ [][NextReport]_vars

\* runs of main_process, one after another, on a rolling report that starts absent
InitMain ==
    /\ pc = "start"
    /\ PrizeIdle /\ CsvIdle /\ ComplexIdle /\ FindIdle /\ ReportIdle /\ MainIdle

NextMain ==
    \/ ReadDrawSource \/ LoadDraws \/ Designate \/ FindReport \/ ReadReport
    \/ ParseAndExpand \/ WarnIfNoTickets \/ ScoreAndRecord \/ NextRun

SpecMain == InitMain /\ [][NextMain]_vars

----------------------------------------------------------------------------
(* What the rolling report holds, read from its text: the entries between the
   two marker lines, and the non-blank lines after the error marker *)

Min(a, b) == IF a < b THEN a ELSE b

StoredEntries(file) ==
    IF file = <<>> THEN <<>>
    ELSE LET IsNoMarker(l) == l # normal_marker
             NonEmpty(text) == StripText(text) # <<>>
             section == SelectSeq(SplitOn(file, error_marker)[1], IsNoMarker)
             pieces  == SelectSeq(SplitOn(section, Separator), NonEmpty)
         IN  [i \in DOMAIN pieces |-> StripText(pieces[i])]

StoredErrorLines(file) ==
    LET NonBlank(l) == ~ IsBlank(l)
        parts == SplitOn(file, error_marker)
    IN  IF Len(parts) < 2 THEN <<>> ELSE SelectSeq(parts[2], NonBlank)

WithinCaps(file) ==
    /\ file # <<>>
    /\ Len(StoredEntries(file)) <= MAX_NORMAL_RECORDS
    /\ Len(StoredErrorLines(file)) <= MAX_ERROR_LOGS

----------------------------------------------------------------------------
(* C1 *)

\* the table of the claim: <<front_hits, back_hits, tier>>
TierTable ==
    { <<5, 2, 1>>, <<5, 1, 2>>, <<5, 0, 3>>, <<4, 2, 4>>, <<4, 1, 5>>, <<3, 2, 6>>,
      <<4, 0, 7>>, <<3, 1, 8>>, <<2, 2, 9>>, <<3, 0, 9>>, <<1, 2, 9>>, <<2, 1, 9>>,
      <<0, 2, 9>> }

TableTier(fh, bh) ==
    IF \E r \in TierTable : r[1] = fh /\ r[2] = bh
    THEN (CHOOSE r \in TierTable : r[1] = fh /\ r[2] = bh)[3]
    ELSE 0

TierOfTicket(i) ==
    TableTier(Cardinality(Range(tickets[i][1]) \cap Range(prize_front)),
              Cardinality(Range(tickets[i][2]) \cap Range(prize_back)))

RECURSIVE TableWinners(_)
TableWinners(n) ==
    IF n = 0 THEN <<>>
    ELSE IF TierOfTicket(n) = 0 THEN TableWinners(n - 1)
    ELSE Append(TableWinners(n - 1),
                [front |-> tickets[n][1], back |-> tickets[n][2], level |-> TierOfTicket(n)])

\* C1: calculate_prize gives every ticket the tier the table gives its pair
\* (front_hits, back_hits) and no tier to every other pair: the winners are the
\* tickets with a tier in the table, in order, each once with that tier; the
\* breakdown counts, per tier, the tickets of that tier; the counts add up to
\* the number of winners; the total is the sum of the winners' amounts.
C1_Classification ==
    pc = "out" =>
        /\ prize_result.winners = TableWinners(Len(tickets))
        /\ \A level \in 1..9 :
              prize_result.breakdown[level] =
                  Cardinality({ i \in DOMAIN tickets : TierOfTicket(i) = level })
        /\ SumSeq([level \in 1..9 |-> prize_result.breakdown[level]])
              = Len(prize_result.winners)
        /\ Len(prize_result.winners) <= Len(tickets)
        /\ prize_result.total_prize
              = SumSeq([i \in DOMAIN prize_result.winners |->
                            PRIZE_TABLE[prize_result.winners[i].level]])

\* two tickets scored, one with 4 front hits and no back hit (tier 7), one
\* with 1 front hit and 1 back hit (no prize)
C1_Witness ==
    /\ pc = "out"
    /\ Len(tickets) = 2
    /\ FrontHits(tickets[1], prize_front) = 4 /\ BackHits(tickets[1], prize_back) = 0
    /\ FrontHits(tickets[2], prize_front) = 1 /\ BackHits(tickets[2], prize_back) = 1
    /\ Len(prize_result.winners) = 1
    /\ prize_result.winners[1].level = 7

----------------------------------------------------------------------------
(* C7 *)

ValidNumbers(field, count, top) ==
    /\ AllNumeric(field)
    /\ Len(field) = count
    /\ \A i \in DOMAIN field : field[i][1] \in 1..top
    /\ \A i, j \in DOMAIN field : i # j => field[i][1] # field[j][1]

ValidRow(row) ==
    /\ row.ncols >= 4
    /\ IsPeriodString(row.period)
    /\ ValidNumbers(row.red, 5, 35)
    /\ ValidNumbers(row.blue, 2, 12)

ValidDraw(draw) ==
    /\ Len(draw.front) = 5 /\ IsDistinct(draw.front) /\ IsAscending(draw.front)
    /\ \A i \in DOMAIN draw.front : draw.front[i] \in 1..35
    /\ Len(draw.back) = 2 /\ IsDistinct(draw.back) /\ IsAscending(draw.back)
    /\ \A i \in DOMAIN draw.back : draw.back[i] \in 1..12

\* C7: every draw in the period map has 5 distinct front numbers in 1..35 and
\* 2 distinct back numbers in 1..12, both ascending; the periods in the map are
\* those of the rows that meet all of this, whatever rows come before them.
C7_Original ==
    pc = "out" =>
        /\ \A p \in DOMAIN csv_result.period_map : ValidDraw(csv_result.period_map[p])
        /\ DOMAIN csv_result.period_map
              = { csv_content.rows[i].period :
                      i \in { j \in DOMAIN csv_content.rows : ValidRow(csv_content.rows[j]) } }

----------------------------------------------------------------------------
(* C8 *)

\* the number of k-element subsets of an n-element set, by Pascal's rule
RECURSIVE Choose(_, _)
Choose(n, k) ==
    IF k = 0 THEN 1
    ELSE IF n = 0 THEN 0
    ELSE Choose(n - 1, k - 1) + Choose(n - 1, k)

PoolCount == Choose(Len(fronts), 5) * Choose(Len(backs), 2)

\* C8: with fewer than 5 fronts or 2 backs the result is empty; for a pool of
\* distinct numbers, if C(|fronts|,5) x C(|backs|,2) is at most 20,000 the
\* result has exactly that many tickets, pairwise distinct, each 5 ascending
\* fronts and 2 ascending backs of the pool, and otherwise it is empty.
C8_CompleteOrNothing ==
    pc = "out" =>
        /\ (Len(fronts) < 5 \/ Len(backs) < 2) => complex_result = <<>>
        /\ (IsDistinct(fronts) /\ IsDistinct(backs) /\ Len(fronts) >= 5 /\ Len(backs) >= 2) =>
              IF PoolCount <= 20000
              THEN /\ Len(complex_result) = PoolCount
                   /\ IsDistinct(complex_result)
                   /\ \A i \in DOMAIN complex_result :
                        LET t == complex_result[i]
                        IN  /\ Len(t[1]) = 5 /\ Len(t[2]) = 2
                            /\ \A j \in 1..4 : t[1][j] < t[1][j + 1]
                            /\ t[2][1] < t[2][2]
                            /\ Range(t[1]) \subseteq Range(fronts)
                            /\ Range(t[2]) \subseteq Range(backs)
              ELSE complex_result = <<>>

\* a pool of distinct numbers whose expansion would pass the limit
C8_Witness ==
    /\ pc = "out"
    /\ IsDistinct(fronts) /\ IsDistinct(backs)
    /\ PoolCount > 20000
    /\ complex_result = <<>>

----------------------------------------------------------------------------
(* C9 *)

\* the files that declare the target and whose names carry a valid timestamp
Matching ==
    { name \in DOMAIN directory :
        /\ directory[name].readable
        /\ directory[name].decls # <<>>
        /\ directory[name].decls[1] = target_period
        /\ name.stamp.form = "valid" }

\* C9: the result is a file that declares the target and whose name has a
\* parseable timestamp, the greatest among such files; and the result is
\* not-found exactly when there is no such file.
C9_LatestMatching ==
    pc = "out" =>
        /\ find_result = <<>> <=> Matching = {}
        /\ find_result # <<>> =>
              /\ find_result[1] \in Matching
              /\ \A other \in Matching : other.stamp.t <= find_result[1].stamp.t

\* found, with an older matching file and a matching file without a timestamp
\* in the same directory
C9_Witness ==
    /\ pc = "out"
    /\ find_result # <<>>
    /\ \E other \in Matching : other.stamp.t < find_result[1].stamp.t
    /\ \E name \in DOMAIN directory :
          /\ name.stamp.form # "valid"
          /\ directory[name].readable
          /\ directory[name].decls # <<>>
          /\ directory[name].decls[1] = target_period

----------------------------------------------------------------------------
(* C2, C3, C10 *)

\* C2: after n entries recorded, the report holds the most recent min(n, 10)
\* of them, newest first.
C2_Original ==
    StoredEntries(report_file)
        = [i \in 1..Min(n_entries, MAX_NORMAL_RECORDS) |-> EntryText(n_entries - i + 1)]

\* C3: after any calls, the report holds at most 10 entries and 20 error lines.
C3_Original ==
    /\ Len(StoredEntries(report_file)) <= MAX_NORMAL_RECORDS
    /\ Len(StoredErrorLines(report_file)) <= MAX_ERROR_LOGS

\* C10: a call that records only an error leaves the stored entries as they
\* were, and a call that records only an entry leaves the stored error lines
\* as they were, for a report written by manage_report and within the caps.
C10_Original ==
    [][ WithinCaps(report_file) =>
          /\ last_call' \in {"error", "critical"} =>
                StoredEntries(report_file') = StoredEntries(report_file)
          /\ last_call' = "entry" =>
                StoredErrorLines(report_file') = StoredErrorLines(report_file) ]_vars

----------------------------------------------------------------------------
(* C4, C5, C6 *)

CallsOfKind(kind) == Cardinality({ i \in DOMAIN calls : calls[i].kind = kind })

\* C4: no run adds an error line and an evaluation entry.
C4_Original ==
    ~ (CallsOfKind("error") >= 1 /\ CallsOfKind("entry") >= 1)

\* C4, amended: a run adds at most one evaluation entry and at most one error
\* line; it adds both only when both ticket lists are empty, and then the
\* error is the one about the tickets and the entry comes after it.
C4_Amended ==
    /\ CallsOfKind("entry") <= 1
    /\ CallsOfKind("error") <= 1
    /\ (CallsOfKind("entry") = 1 /\ CallsOfKind("error") = 1) =>
          /\ rec_tickets = <<>> /\ complex_tickets = <<>>
          /\ calls = << [kind |-> "error", what |-> "no_tickets"],
                        [kind |-> "entry", what |-> "entry"] >>
          /\ StoredErrorLines(report_file)[1] = Line("stamped", "no_tickets", 1, 0)
          /\ StoredEntries(report_file)[1] = EntryText(n_entries)

\* the run with both ticket lists empty has ended
C4_Witness ==
    /\ pc = "done"
    /\ rec_tickets = <<>> /\ complex_tickets = <<>>
    /\ CallsOfKind("error") = 1 /\ CallsOfKind("entry") = 1

C6_Original ==
    pc \in {"designated", "found", "read", "expanded", "checked"} =>
        /\ eval_period \in DOMAIN loaded.period_map
        /\ \A p \in DOMAIN loaded.period_map : IntOf(p) <= IntOf(eval_period)
        /\ report_cutoff_period = loaded.sorted_periods[Len(loaded.sorted_periods) - 1]
        /\ report_cutoff_period # eval_period
        /\ IntOf(report_cutoff_period) < IntOf(eval_period)

====
